---- MODULE Spec2Model ----
(***************************************************************************)
(* A model of the utilities of the repository that carry behaviour:        *)
(*   - resolveOrTimeout (generics notes): a promise raced against a timer, *)
(*   - mapDict, reduceDict (challenges/dict): map and reduce for Dict<T>,  *)
(*   - arrayToDict (generics notes): an array indexed by the id of its     *)
(*     elements,                                                           *)
(*   - getNameParts (function notes), addNumbers (hello-ts).               *)
(* Each has its own variables, actions and specification.                  *)
(* The JavaScript run time the code relies on (promise settlement, the     *)
(* microtask queue, timers, the own-property order of objects) is modelled *)
(* as far as the code uses it.                                             *)
(***************************************************************************)
EXTENDS Integers, Sequences, FiniteSets, TLC

VARIABLES
  \* ---- resolveOrTimeout ----
  pc,          \* "idle" until resolveOrTimeout(promise, timeout) is called
  now,         \* the clock, in timer ticks
  promise,     \* the wrapped promise (the argument)
  task,        \* the timer created by setTimeout
  returned,    \* the promise resolveOrTimeout returns
  derived,     \* the promise promise.then(...) returns (the code drops it)
  microtasks,  \* the promise reaction jobs waiting to run
  first,       \* which callback the event loop ran first after the call
  \* ---- mapDict ----
  dict,        \* the dictionary under construction / the argument
  called,      \* "none" | "map" | "chain": the last call made on dict
  fnF, fnG,    \* the mapping functions of the last call
  result,      \* mapDict(dict, fnF)
  chained,     \* mapDict(mapDict(dict, fnF), fnG)
  composed,    \* mapDict(dict, (x, i) => fnG(fnF(x, i), i))
  \* ---- arrayToDict, reduceDict ----
  array,       \* the argument of arrayToDict, under construction
  arrPc,       \* "build" | "dict" | "reduced"
  arrOut,      \* arrayToDict(array)
  reduced,     \* what reduceDict returned for arrOut
  \* ---- mapDict on objects with identity ----
  heap,        \* the objects: heap[r] is the property table of object r
  heapPc,      \* "build" | "called" | "mutated"
  resRef,      \* the object mapDict returned
  snapshot,    \* the properties of the argument when mapDict was called
  \* ---- getNameParts ----
  name,        \* contact.name, a sequence of characters, under construction
  namePc,      \* "build" | "called"
  nameOut,     \* what getNameParts(contact) returned, or that it threw
  \* ---- addNumbers ----
  addPc,       \* "idle" | "awaiting" | "resumable" | "done"
  addNow,      \* the clock, in ms
  addCall,     \* the arguments a, b and the time of the call
  addTimer,    \* the timer created by timeout(500)
  addPromise   \* the promise addNumbers returns

raceVars == <<pc, now, promise, task, returned, derived, microtasks, first>>
dictVars == <<dict, called, fnF, fnG, result, chained, composed>>
arrVars == <<array, arrPc, arrOut, reduced>>
heapVars == <<heap, heapPc, resRef, snapshot>>
nameVars == <<name, namePc, nameOut>>
addVars == <<addPc, addNow, addCall, addTimer, addPromise>>
vars == <<pc, now, promise, task, returned, derived, microtasks, first,
          dict, called, fnF, fnG, result, chained, composed,
          array, arrPc, arrOut, reduced,
          heap, heapPc, resRef, snapshot,
          name, namePc, nameOut,
          addPc, addNow, addCall, addTimer, addPromise>>
\* What the steps of one utility leave alone: the state of the others.
exceptRace == <<dictVars, arrVars, heapVars, nameVars, addVars>>
exceptDict == <<raceVars, arrVars, heapVars, nameVars, addVars>>
exceptArr == <<raceVars, dictVars, heapVars, nameVars, addVars>>
exceptHeap == <<raceVars, dictVars, arrVars, nameVars, addVars>>
exceptName == <<raceVars, dictVars, arrVars, heapVars, addVars>>
exceptAdd == <<raceVars, dictVars, arrVars, heapVars, nameVars>>

(***************************************************************************)
(* Bounds                                                                  *)
(***************************************************************************)
MaxTime == 4
MaxTimeout == 2

(***************************************************************************)
(* resolveOrTimeout                                                        *)
(***************************************************************************)
Values == {"done", "other"}        \* what the wrapped promise may resolve with
Errors == {"boom", "oops"}         \* what the wrapped promise may reject with
TimeUp == "time up!"               \* the reason the timer callback rejects with
NoValue == "<none>"

PendingPromise == [state |-> "pending", value |-> NoValue, at |-> 0]

\* The resolve / reject functions of a promise: only the first call settles it.
Settle(p, st, v) ==
  IF p.state = "pending" THEN [state |-> st, value |-> v, at |-> now] ELSE p

\* clearTimeout: cancels a timer that is still scheduled, nothing otherwise.
clearTimeout(t) ==
  IF t.state = "scheduled" THEN [t EXCEPT !.state = "cleared"] ELSE t

\* The reaction job promise.then(onFulfilled) enqueues once promise is settled.
ReactionJob(p) == [kind |-> p.state, value |-> p.value]

InitRace ==
  /\ pc = "idle"
  /\ now = 0
  /\ promise = PendingPromise
  /\ task = [state |-> "none", due |-> 0, firedAt |-> 0]
  /\ returned = PendingPromise
  /\ derived = PendingPromise
  /\ microtasks = <<>>
  /\ first = "none"

\* The executor of line 57..68, run synchronously by new Promise: setTimeout
\* schedules the timer, promise.then registers the callback (a reaction job is
\* enqueued at once when promise is already settled).
Call_RejectsAtOnce(ms) ==
  /\ pc = "idle"
  /\ pc' = "called"
  /\ task' = [state |-> "scheduled", due |-> now + ms, firedAt |-> 0]
  /\ returned' = Settle(returned, "rejected", TimeUp)
  /\ microtasks' = IF promise.state = "pending" THEN microtasks
                   ELSE Append(microtasks, ReactionJob(promise))
  /\ UNCHANGED <<now, promise, derived, first>>

Call(ms) ==
  /\ pc = "idle"
  /\ pc' = "called"
  /\ task' = [state |-> "scheduled", due |-> now + ms, firedAt |-> 0]
  /\ microtasks' = IF promise.state = "pending" THEN microtasks
                   ELSE Append(microtasks, ReactionJob(promise))
  /\ UNCHANGED <<now, promise, returned, derived, first>>

CallResolveOrTimeout == \E ms \in 0..MaxTimeout : Call(ms) /\ UNCHANGED exceptRace

\* The wrapped computation settles (the environment's step). The callback
\* registered by then, if any, is enqueued as a microtask.
PromiseSettles(st, v) ==
  /\ promise.state = "pending"
  /\ promise' = Settle(promise, st, v)
  /\ microtasks' = IF pc = "called" THEN Append(microtasks, ReactionJob(promise'))
                   ELSE microtasks
  /\ UNCHANGED <<pc, now, task, returned, derived, first>>

PromiseFulfils == \E v \in Values : PromiseSettles("fulfilled", v) /\ UNCHANGED exceptRace
PromiseRejects == \E e \in Errors : PromiseSettles("rejected", e) /\ UNCHANGED exceptRace

\* The callback of line 61..67: clearTimeout(task); resolve(val). It returns
\* nothing, so the derived promise is fulfilled with undefined.
OnFulfilled(val) ==
  /\ task' = clearTimeout(task)
  /\ returned' = Settle(returned, "fulfilled", val)
  /\ derived' = Settle(derived, "fulfilled", "undefined")

\* promise.then is given no onRejected: a rejection only rejects the derived
\* promise, which nobody holds. Neither the timer nor the returned promise is
\* touched.
OnRejected_ClearsTimer(reason) ==
  /\ derived' = Settle(derived, "rejected", reason)
  /\ task' = clearTimeout(task)
  /\ UNCHANGED returned

OnRejected(reason) ==
  /\ derived' = Settle(derived, "rejected", reason)
  /\ UNCHANGED <<task, returned>>

\* The event loop runs the oldest microtask.
RunMicrotask ==
  /\ microtasks # <<>>
  /\ LET job == Head(microtasks) IN
       /\ IF job.kind = "fulfilled" THEN OnFulfilled(job.value)
                                    ELSE OnRejected(job.value)
       /\ first' = IF first = "none" THEN job.kind ELSE first
  /\ microtasks' = Tail(microtasks)
  /\ UNCHANGED <<pc, now, promise>>
  /\ UNCHANGED exceptRace

\* The timer callback of line 59: () => reject("time up!").
TimerCallback_Silent ==
  returned' = returned

TimerCallback ==
  returned' = Settle(returned, "rejected", TimeUp)

\* A scheduled timer fires once it is due; timers are macrotasks, so the
\* microtask queue has been drained before.
TimerFires_AbortsComputation ==
  /\ task.state = "scheduled"
  /\ now >= task.due
  /\ microtasks = <<>>
  /\ task' = [task EXCEPT !.state = "fired", !.firedAt = now]
  /\ TimerCallback
  /\ promise' = Settle(promise, "rejected", "aborted")
  /\ first' = IF first = "none" THEN "timer" ELSE first
  /\ UNCHANGED <<pc, now, derived, microtasks>>
  /\ UNCHANGED exceptRace

TimerFires ==
  /\ task.state = "scheduled"
  /\ now >= task.due
  /\ microtasks = <<>>
  /\ task' = [task EXCEPT !.state = "fired", !.firedAt = now]
  /\ TimerCallback
  /\ first' = IF first = "none" THEN "timer" ELSE first
  /\ UNCHANGED <<pc, now, promise, derived, microtasks>>
  /\ UNCHANGED exceptRace

\* Time passes. The model stops the clock at MaxTime, but never before a
\* scheduled timer is due.
Tick ==
  /\ now < MaxTime \/ (task.state = "scheduled" /\ now < task.due)
  /\ now' = now + 1
  /\ UNCHANGED <<pc, promise, task, returned, derived, microtasks, first>>
  /\ UNCHANGED exceptRace

NextRace ==
  \/ CallResolveOrTimeout
  \/ PromiseFulfils
  \/ PromiseRejects
  \/ RunMicrotask
  \/ TimerFires
  \/ Tick

(***************************************************************************)
(* mapDict                                                                 *)
(***************************************************************************)
\* JavaScript values a dictionary may hold.
Undefined == [type |-> "undefined"]
NaN == [type |-> "NaN"]
Num(n) == [type |-> "number", val |-> n]
IsNum(x) == x.type = "number"

MaxVal == 1
MaxEntries == 3

Keys == {"b", "a", "1", "0"}
\* Canonical array indices among the keys, and their numeric value.
IsArrayIndex(k) == k \in {"0", "1"}
ToIndex(k) == IF k = "0" THEN 0 ELSE 1

\* The mapping functions handed to mapDict: (arg, idx) => S.
Fns == {"identity", "inc", "addIdx", "index", "toUndefined", "zeroToUndefined"}
UsesIndex(f) == f \in {"addIdx", "index"}

Apply(f, x, i) ==
  CASE f = "identity"        -> x                                      \* (v) => v
    [] f = "inc"             -> IF IsNum(x) THEN Num(x.val + 1) ELSE NaN \* (v) => v + 1
    [] f = "addIdx"          -> IF IsNum(x) THEN Num(x.val + i) ELSE NaN \* (v, i) => v + i
    [] f = "index"           -> Num(i)                                 \* (v, i) => i
    [] f = "toUndefined"     -> Undefined                              \* () => undefined
    [] f = "zeroToUndefined" -> IF x = Num(0) THEN Undefined ELSE x    \* (v) => v === 0 ? undefined : v

\* fn is a pipeline <<f>> or <<f, g>>: (x, i) => g(f(x, i), i).
RECURSIVE ApplyAll(_, _, _)
ApplyAll(fn, x, i) ==
  IF fn = <<>> THEN x ELSE ApplyAll(Tail(fn), Apply(Head(fn), x, i), i)

\* An object is its own-property table, in creation order.
HasKey(d, k) == \E i \in 1..Len(d) : d[i].key = k
IndexOfKey(d, k) == CHOOSE i \in 1..Len(d) : d[i].key = k
\* d[k]
Get(d, k) == IF HasKey(d, k) THEN d[IndexOfKey(d, k)].val ELSE Undefined
\* d[k] = v
Set(d, k, v) ==
  IF HasKey(d, k) THEN [d EXCEPT ![IndexOfKey(d, k)].val = v]
  ELSE Append(d, [key |-> k, val |-> v])

RECURSIVE Ascending(_)
Ascending(S) ==
  IF S = {} THEN <<>>
  ELSE LET m == CHOOSE k \in S : \A o \in S : ToIndex(k) <= ToIndex(o)
       IN <<m>> \o Ascending(S \ {m})

KeySeq(d) == [i \in 1..Len(d) |-> d[i].key]
IsStringKey(k) == ~IsArrayIndex(k)
\* Object.keys: array-index keys in ascending order, then the other string
\* keys in creation order.
ObjectKeys(d) ==
  Ascending({k \in Keys : HasKey(d, k) /\ IsArrayIndex(k)})
    \o SelectSeq(KeySeq(d), IsStringKey)

\* One iteration of the forEach callback, lines 17..22.
Visit_CompactIdx(d, fn, dKey, idx, out) ==
  LET currentItem == Get(d, dKey) IN
  IF currentItem # Undefined
    THEN Set(out, dKey, ApplyAll(fn, currentItem, Len(out)))
    ELSE out

Visit_Truthy(d, fn, dKey, idx, out) ==
  LET currentItem == Get(d, dKey) IN
  IF currentItem # Undefined /\ currentItem # Num(0) /\ currentItem # NaN
    THEN Set(out, dKey, ApplyAll(fn, currentItem, idx))
    ELSE out

Visit_NoGuard(d, fn, dKey, idx, out) ==
  LET currentItem == Get(d, dKey) IN
  Set(out, dKey, ApplyAll(fn, currentItem, idx))

Visit_SwappedArgs(d, fn, dKey, idx, out) ==
  LET currentItem == Get(d, dKey) IN
  IF currentItem # Undefined
    THEN Set(out, dKey, ApplyAll(fn, Num(idx), currentItem.val))
    ELSE out

Visit(d, fn, dKey, idx, out) ==
  LET currentItem == Get(d, dKey) IN
  IF currentItem # Undefined
    THEN Set(out, dKey, ApplyAll(fn, currentItem, idx))
    ELSE out

RECURSIVE ForEachKey(_, _, _, _, _)
ForEachKey(d, fn, keys, idx, out) ==
  IF idx >= Len(keys) THEN out
  ELSE ForEachKey(d, fn, keys, idx + 1, Visit(d, fn, keys[idx + 1], idx, out))

mapDict(d, fn) == ForEachKey(d, fn, ObjectKeys(d), 0, <<>>)

InitDict ==
  /\ dict = <<>>
  /\ called = "none"
  /\ fnF = "identity"
  /\ fnG = "identity"
  /\ result = <<>>
  /\ chained = <<>>
  /\ composed = <<>>

NoCall ==
  /\ called' = "none"
  /\ fnF' = "identity"
  /\ fnG' = "identity"
  /\ result' = <<>>
  /\ chained' = <<>>
  /\ composed' = <<>>

\* The caller builds the argument of the next call: one property of an object
\* literal such as { a: 456, b: 123 }.
Put ==
  /\ called = "none"
  /\ \E k \in Keys, n \in 0..MaxVal :
       /\ HasKey(dict, k) \/ Len(dict) < MaxEntries
       /\ dict' = Set(dict, k, Num(n))
  /\ NoCall
  /\ UNCHANGED exceptDict

\* mapDict(dict, f)
CallMapDict ==
  /\ called = "none"
  /\ \E f \in Fns :
       /\ fnF' = f
       /\ result' = mapDict(dict, <<f>>)
  /\ called' = "map"
  /\ fnG' = "identity"
  /\ chained' = <<>>
  /\ composed' = <<>>
  /\ UNCHANGED dict
  /\ UNCHANGED exceptDict

\* mapDict(mapDict(dict, f), g) beside mapDict(dict, (x, i) => g(f(x, i), i))
CallMapDictTwice ==
  /\ called = "none"
  /\ \E f \in Fns, g \in Fns :
       /\ fnF' = f
       /\ fnG' = g
       /\ result' = mapDict(dict, <<f>>)
       /\ chained' = mapDict(mapDict(dict, <<f>>), <<g>>)
       /\ composed' = mapDict(dict, <<f, g>>)
  /\ called' = "chain"
  /\ UNCHANGED dict
  /\ UNCHANGED exceptDict

InBounds(d) ==
  \A i \in 1..Len(d) : d[i].val = Undefined \/ (IsNum(d[i].val) /\ d[i].val.val <= MaxVal)

\* The returned dictionary is handed to the next call as its argument.
UseResult ==
  /\ called = "map"
  /\ InBounds(result)
  /\ dict' = result
  /\ NoCall
  /\ UNCHANGED exceptDict

NextDict ==
  \/ Put
  \/ CallMapDict
  \/ CallMapDictTwice
  \/ UseResult

(***************************************************************************)
(* arrayToDict and reduceDict                                              *)
(***************************************************************************)
MaxArray == 3

\* An array element: an object with an id, such as { id: "a", value: "first" }.
Obj(k, n) == [type |-> "object", id |-> k, value |-> n]

\* out[val.id] = val
Store_MoveToEnd(out, val) ==
  Append(SelectSeq(out, LAMBDA e : e.key # val.id), [key |-> val.id, val |-> val])

Store(out, val) == Set(out, val.id, val)

RECURSIVE ArrayForEach(_, _, _)
ArrayForEach(arr, i, out) ==
  IF i > Len(arr) THEN out
  ELSE ArrayForEach(arr, i + 1, Store(out, arr[i]))

RECURSIVE ArrayForEachRight(_, _, _)
ArrayForEachRight(arr, i, out) ==
  IF i < 1 THEN out
  ELSE ArrayForEachRight(arr, i - 1, Store(out, arr[i]))

arrayToDict_Reversed(arr) == ArrayForEachRight(arr, Len(arr), <<>>)

arrayToDict(arr) == ArrayForEach(arr, 1, <<>>)

\* export function reduceDict() {}: no parameters, no body. Whatever it is
\* called with, it visits nothing and returns undefined.
reduceDict(d, fn, initial) == Undefined

InitArr ==
  /\ array = <<>>
  /\ arrPc = "build"
  /\ arrOut = <<>>
  /\ reduced = Undefined

\* The caller writes one more element of the array literal.
PushElement ==
  /\ arrPc = "build"
  /\ Len(array) < MaxArray
  /\ \E k \in Keys, n \in 0..MaxVal : array' = Append(array, Obj(k, n))
  /\ UNCHANGED <<arrPc, arrOut, reduced>>
  /\ UNCHANGED exceptArr

\* const myDict = arrayToDict([...])
CallArrayToDict ==
  /\ arrPc = "build"
  /\ arrOut' = arrayToDict(array)
  /\ arrPc' = "dict"
  /\ UNCHANGED <<array, reduced>>
  /\ UNCHANGED exceptArr

\* reduceDict(myDict, (acc, value, key) => acc.concat(key), [])
CallReduceDict ==
  /\ arrPc = "dict"
  /\ reduced' = reduceDict(arrOut, "collectKeys", <<>>)
  /\ arrPc' = "reduced"
  /\ UNCHANGED <<array, arrOut>>
  /\ UNCHANGED exceptArr

NextArr ==
  \/ PushElement
  \/ CallArrayToDict
  \/ CallReduceDict

(***************************************************************************)
(* mapDict on objects with identity: the argument and the result are       *)
(* references into a heap, so that writes through one are seen through     *)
(* every alias.                                                            *)
(***************************************************************************)
ArgRef == 1

\* const out: Dict<S> = {}: a new object, distinct from every other.
AllocOut_Alias(h, dRef) == dRef

AllocOut(h, dRef) == Len(h) + 1

WithObject(h, ref) == IF ref > Len(h) THEN Append(h, <<>>) ELSE h

\* Object.keys(dict).forEach(...): keys is computed once, each iteration reads
\* dict and writes out through their references.
RECURSIVE ForEachKeyOnHeap(_, _, _, _, _, _)
ForEachKeyOnHeap(h, dRef, fn, keys, idx, outRef) ==
  IF idx >= Len(keys) THEN h
  ELSE ForEachKeyOnHeap(
         [h EXCEPT ![outRef] = Visit(h[dRef], fn, keys[idx + 1], idx, h[outRef])],
         dRef, fn, keys, idx + 1, outRef)

InitHeap ==
  /\ heap = << <<>> >>
  /\ heapPc = "build"
  /\ resRef = 0
  /\ snapshot = <<>>

\* The caller builds the argument object.
HeapPut ==
  /\ heapPc = "build"
  /\ \E k \in Keys, n \in 0..MaxVal :
       /\ HasKey(heap[ArgRef], k) \/ Len(heap[ArgRef]) < MaxEntries
       /\ heap' = [heap EXCEPT ![ArgRef] = Set(@, k, Num(n))]
  /\ UNCHANGED <<heapPc, resRef, snapshot>>
  /\ UNCHANGED exceptHeap

\* const r = mapDict(d, f)
HeapCallMapDict ==
  /\ heapPc = "build"
  /\ \E f \in Fns :
       LET outRef == AllocOut(heap, ArgRef) IN
       /\ heap' = ForEachKeyOnHeap(WithObject(heap, outRef), ArgRef, <<f>>,
                                   ObjectKeys(heap[ArgRef]), 0, outRef)
       /\ resRef' = outRef
  /\ snapshot' = heap[ArgRef]
  /\ heapPc' = "called"
  /\ UNCHANGED exceptHeap

\* r[k] = v: the caller changes the dictionary it was returned.
HeapMutateResult ==
  /\ heapPc = "called"
  /\ \E k \in Keys, n \in 0..MaxVal :
       heap' = [heap EXCEPT ![resRef] = Set(@, k, Num(n))]
  /\ heapPc' = "mutated"
  /\ UNCHANGED <<resRef, snapshot>>
  /\ UNCHANGED exceptHeap

NextHeap ==
  \/ HeapPut
  \/ HeapCallMapDict
  \/ HeapMutateResult

(***************************************************************************)
(* getNameParts                                                            *)
(***************************************************************************)
MaxNameLen == 5

\* A string is a sequence of characters; " " is the whitespace character.
Chars == {"J", "q", " "}
IsWhitespace(c) == c = " "
Str(chars) == [type |-> "string", chars |-> chars]

\* String.prototype.split(/\s/g): a new part starts after every whitespace
\* character, so n whitespace characters give n + 1 parts, empty ones included.
RECURSIVE SplitFrom(_, _, _, _)
SplitFrom(str, i, cur, parts) ==
  IF i > Len(str) THEN Append(parts, cur)
  ELSE IF IsWhitespace(str[i]) THEN SplitFrom(str, i + 1, <<>>, Append(parts, cur))
  ELSE SplitFrom(str, i + 1, Append(cur, str[i]), parts)

Split(str) == SplitFrom(str, 1, <<>>, <<>>)

\* Array.prototype.slice(start, end) for 0 <= start, 0 <= end: the elements
\* at the 0-based positions start .. end - 1.
Slice(seq, start, end) ==
  LET stop == IF end > Len(seq) THEN Len(seq) ELSE end
  IN IF start >= stop THEN <<>> ELSE SubSeq(seq, start + 1, stop)

\* Array.prototype.join(" ")
RECURSIVE Join(_)
Join(parts) ==
  IF parts = <<>> THEN <<>>
  ELSE IF Len(parts) = 1 THEN parts[1]
  ELSE parts[1] \o <<" ">> \o Join(Tail(parts))

Threw == [threw |-> TRUE]
Returned(first_, middle_, last_) ==
  [threw |-> FALSE, first |-> first_, middle |-> middle_, last |-> last_]

getNameParts(contactName) ==
  LET parts == Split(contactName) IN
  IF Len(parts) < 2 THEN Threw
  ELSE Returned(Str(parts[1]),
                IF Len(parts) = 2 THEN Undefined
                ELSE Str(Join(Slice(parts, 1, Len(parts) - 2))),
                Str(parts[Len(parts)]))

InitName ==
  /\ name = <<>>
  /\ namePc = "build"
  /\ nameOut = Threw

\* The caller writes one more character of contact.name.
TypeChar ==
  /\ namePc = "build"
  /\ Len(name) < MaxNameLen
  /\ \E c \in Chars : name' = Append(name, c)
  /\ UNCHANGED <<namePc, nameOut>>
  /\ UNCHANGED exceptName

\* getNameParts({ name })
CallGetNameParts ==
  /\ namePc = "build"
  /\ nameOut' = getNameParts(name)
  /\ namePc' = "called"
  /\ UNCHANGED name
  /\ UNCHANGED exceptName

NextName ==
  \/ TypeChar
  \/ CallGetNameParts

(***************************************************************************)
(* addNumbers                                                              *)
(***************************************************************************)
MaxArg == 4
MaxAddTime == 300
TimeoutMs == 500               \* await timeout(500)
TickSizes == {100, 250}        \* how far the clock moves in one step, in ms

PendingSum == [state |-> "pending", value |-> 0, at |-> 0]

\* timeout(n): new Promise(res => setTimeout(res, n)), a timer due in n ms.
timeout(n) == [state |-> "scheduled", due |-> addNow + n, firedAt |-> 0]

\* addNumbers(a, b) runs up to the await: the timer is set, the returned
\* promise is pending.
AddCall_NoAwait(a, b) ==
  /\ addPc = "idle"
  /\ addCall' = [a |-> a, b |-> b, at |-> addNow]
  /\ addTimer' = timeout(TimeoutMs)
  /\ addPromise' = [state |-> "fulfilled", value |-> a + b, at |-> addNow]
  /\ addPc' = "done"
  /\ UNCHANGED addNow

AddCall(a, b) ==
  /\ addPc = "idle"
  /\ addCall' = [a |-> a, b |-> b, at |-> addNow]
  /\ addTimer' = timeout(TimeoutMs)
  /\ addPc' = "awaiting"
  /\ UNCHANGED <<addNow, addPromise>>

CallAddNumbers ==
  \E a \in 0..MaxArg, b \in 0..MaxArg : AddCall(a, b) /\ UNCHANGED exceptAdd

\* The timer fires once due and calls res: the awaited promise is resolved and
\* the rest of addNumbers is queued as a microtask.
AddTimerFires ==
  /\ addPc = "awaiting"
  /\ addTimer.state = "scheduled"
  /\ addNow >= addTimer.due
  /\ addTimer' = [addTimer EXCEPT !.state = "fired", !.firedAt = addNow]
  /\ addPc' = "resumable"
  /\ UNCHANGED <<addNow, addCall, addPromise>>
  /\ UNCHANGED exceptAdd

\* return a + b: the returned promise is resolved with the sum.
AddResume ==
  /\ addPc = "resumable"
  /\ addPromise' = IF addPromise.state = "pending"
                    THEN [state |-> "fulfilled", value |-> addCall.a + addCall.b,
                          at |-> addNow]
                    ELSE addPromise
  /\ addPc' = "done"
  /\ UNCHANGED <<addNow, addCall, addTimer>>
  /\ UNCHANGED exceptAdd

\* Time passes. The model stops the clock at MaxAddTime, but never before a
\* scheduled timer is due.
AddTick ==
  /\ addNow < MaxAddTime \/ (addTimer.state = "scheduled" /\ addNow < addTimer.due)
  /\ \E d \in TickSizes : addNow' = addNow + d
  /\ UNCHANGED <<addPc, addCall, addTimer, addPromise>>
  /\ UNCHANGED exceptAdd

InitAdd ==
  /\ addPc = "idle"
  /\ addNow = 0
  /\ addCall = [a |-> 0, b |-> 0, at |-> 0]
  /\ addTimer = [state |-> "none", due |-> 0, firedAt |-> 0]
  /\ addPromise = PendingSum

NextAdd ==
  \/ CallAddNumbers
  \/ AddTimerFires
  \/ AddResume
  \/ AddTick

Init == InitRace /\ InitDict /\ InitArr /\ InitHeap /\ InitName /\ InitAdd

Next == NextRace \/ NextDict \/ NextArr \/ NextHeap \/ NextName \/ NextAdd

SpecRace == Init /\ [][NextRace]_vars
\* The event loop runs every queued microtask, time passes, and a timer that
\* is due and not cancelled fires.
SpecRaceFair ==
  SpecRace /\ WF_vars(RunMicrotask) /\ WF_vars(TimerFires) /\ WF_vars(Tick)
SpecDict == Init /\ [][NextDict]_vars
SpecArr == Init /\ [][NextArr]_vars
SpecHeap == Init /\ [][NextHeap]_vars
SpecName == Init /\ [][NextName]_vars
SpecAdd == Init /\ [][NextAdd]_vars
Spec == Init /\ [][Next]_vars

(***************************************************************************)
(* Properties of resolveOrTimeout (checked under SpecRace)                 *)
(***************************************************************************)
Drained == pc = "called" /\ microtasks = <<>>

\* C1: when the wrapped promise rejects before the timer fires, the returned
\* promise is rejected with the wrapped promise's own reason.
C1_FailurePropagated ==
  (pc = "called" /\ first = "rejected")
    => (returned.state = "rejected" /\ returned.value = promise.value)

\* C2: once the wrapped promise has settled and its callback has run, no timer
\* remains scheduled.
C2_NoTimerLeftOnceSettled ==
  (Drained /\ promise.state # "pending") => task.state # "scheduled"

\* C3: when the wrapped promise fulfils with v before the timer fires, the
\* returned promise is fulfilled with v, in that state and in every later one,
\* and the timer never fires.
C3_SuccessResolvesWithValue ==
  (pc = "called" /\ first = "fulfilled")
    => /\ returned.state = "fulfilled"
       /\ returned.value = promise.value
       /\ task.state = "cleared"

C3_Witness ==
  /\ first = "fulfilled"
  /\ returned.state = "fulfilled"
  /\ returned.value = "done"
  /\ promise.at > 0
  /\ promise.at < task.due
  /\ now > task.due

\* C4: when the timer fires before the wrapped promise settles, the returned
\* promise is rejected with "time up!" at the time the timer fired, and stays
\* so whatever the wrapped promise does later.
C4_TimeoutRejectsAtFiring ==
  (pc = "called" /\ first = "timer")
    => /\ returned.state = "rejected"
       /\ returned.value = TimeUp
       /\ returned.at = task.firedAt

C4_Witness ==
  /\ first = "timer"
  /\ Drained
  /\ promise.state = "fulfilled"
  /\ promise.value = "done"
  /\ promise.at > task.firedAt
  /\ returned.state = "rejected"
  /\ returned.value = TimeUp

\* C5: the returned promise takes the outcome of whichever callback the event
\* loop ran first: fulfilled with the value, rejected with the computation's
\* reason, or rejected with "time up!".
C5_FirstSignalWins ==
  /\ (first = "fulfilled") =>
       (returned.state = "fulfilled" /\ returned.value = promise.value)
  /\ (first = "rejected") =>
       (returned.state = "rejected" /\ returned.value = promise.value)
  /\ (first = "timer") =>
       (returned.state = "rejected" /\ returned.value = TimeUp)

\* C15: resolveOrTimeout never acts on the wrapped computation: the wrapped
\* promise changes only by settling on its own, in a step that touches nothing
\* of the wrapper, and while it is pending it can always settle, whatever the
\* timer has done.
C15_ComputationUntouched ==
  /\ [](promise.state = "pending" => (ENABLED PromiseFulfils /\ ENABLED PromiseRejects))
  /\ [][promise' # promise =>
          /\ promise.state = "pending"
          /\ promise'.state \in {"fulfilled", "rejected"}
          /\ promise'.value \in Values \cup Errors
          /\ UNCHANGED <<pc, task, returned, derived, first>>]_vars

C15_Witness ==
  /\ Drained
  /\ task.state = "fired"
  /\ promise.state = "rejected"
  /\ promise.at > task.firedAt

\* C18: once resolveOrTimeout has been called, the returned promise eventually
\* leaves Pending, whether the wrapped promise resolves, rejects or never
\* settles (the timer being fired once due unless cancelled).
C18_EventuallySettles ==
  (pc = "called") ~> (returned.state # "pending")

C18_Witness ==
  /\ first = "rejected"
  /\ promise.state = "rejected"
  /\ returned.state = "rejected"
  /\ returned.value = TimeUp
  /\ task.due > 0

(***************************************************************************)
(* Properties of mapDict (checked under SpecDict)                          *)
(***************************************************************************)
IsDefinedIn(d, k) == Get(d, k) # Undefined
NoUndefined(d) == \A i \in 1..Len(d) : d[i].val # Undefined
\* The keys of d whose value is not undefined, in iteration order.
DefinedKeys(d) ==
  LET keys == ObjectKeys(d)
      Kept[n \in 0..Len(keys)] ==
        IF n = 0 THEN <<>>
        ELSE IF IsDefinedIn(d, keys[n]) THEN Append(Kept[n - 1], keys[n])
        ELSE Kept[n - 1]
  IN Kept[Len(keys)]
\* Same keys, same iteration order, same values.
SameDict(a, b) ==
  /\ ObjectKeys(a) = ObjectKeys(b)
  /\ \A k \in Keys : Get(a, k) = Get(b, k)
\* An undefined-valued entry of d comes before an entry with a value.
HoleBeforeValue(d) ==
  LET keys == ObjectKeys(d) IN
  \E i, j \in 1..Len(keys) :
    i < j /\ ~IsDefinedIn(d, keys[i]) /\ IsDefinedIn(d, keys[j])

\* C6 (as claimed): the result of mapDict(d, fn) has the keys of d in the same
\* order, each mapped to fn(value, position in the iteration order of d).
C6_MapKeepsKeysAndPositions ==
  called # "none" =>
    LET keys == ObjectKeys(dict) IN
    /\ ObjectKeys(result) = keys
    /\ \A i \in 1..Len(keys) :
         Get(result, keys[i]) = Apply(fnF, Get(dict, keys[i]), i - 1)

\* C6 (amended): the result has the keys of d whose value is not undefined, in
\* the same relative order, each mapped to fn(value, i), i the key's position
\* among all the keys of d.
C6_MapKeepsDefinedKeysAndPositions ==
  called # "none" =>
    LET keys == ObjectKeys(dict) IN
    /\ ObjectKeys(result) = DefinedKeys(dict)
    /\ \A i \in 1..Len(keys) :
         IsDefinedIn(dict, keys[i]) =>
           Get(result, keys[i]) = Apply(fnF, Get(dict, keys[i]), i - 1)

C6_Witness ==
  /\ called = "map"
  /\ fnF = "addIdx"
  /\ HoleBeforeValue(dict)
  /\ Len(result) = 2

\* C7 (as claimed): mapDict(mapDict(m, f), g) equals mapDict(m, x -> g(f(x)))
\* for all f and g.
C7_Composition ==
  called = "chain" => SameDict(chained, composed)

\* C7 (amended): the two are equal when f returns undefined for no entry of m
\* and either m holds no undefined-valued entry or g ignores its index.
C7_CompositionOnDefined ==
  (/\ called = "chain"
   /\ NoUndefined(result)
   /\ NoUndefined(dict) \/ ~UsesIndex(fnG))
    => SameDict(chained, composed)

C7_Witness ==
  /\ called = "chain"
  /\ fnF = "index"
  /\ fnG = "addIdx"
  /\ NoUndefined(dict)
  /\ Len(dict) = 3
  /\ KeySeq(dict) # ObjectKeys(dict)
  /\ Len(chained) = 3

\* C8 (as claimed): no dictionary, and no result of mapDict, holds an entry
\* whose value is undefined.
C8_NoUndefinedStored ==
  /\ NoUndefined(dict)
  /\ called # "none" => NoUndefined(result)

\* C8 (amended): a key of the result of mapDict is mapped to undefined only
\* when fn returned undefined for that entry; an undefined-valued entry of the
\* input is never carried into the result.
C8_UndefinedOnlyFromFn ==
  called # "none" =>
    LET keys == ObjectKeys(dict) IN
    \A i \in 1..Len(keys) :
      (HasKey(result, keys[i]) /\ Get(result, keys[i]) = Undefined)
        => /\ IsDefinedIn(dict, keys[i])
           /\ Apply(fnF, Get(dict, keys[i]), i - 1) = Undefined

C8_Witness ==
  /\ called = "map"
  /\ fnF = "zeroToUndefined"
  /\ ~NoUndefined(dict)
  /\ ~NoUndefined(result)
  /\ Len(result) < Len(dict)

\* C9 (as claimed): dict[k] is undefined exactly when k is not a key of dict,
\* and mapDict transforms every key that is present.
C9_AbsentIffNotMember ==
  /\ \A k \in Keys : (Get(dict, k) = Undefined) <=> ~HasKey(dict, k)
  /\ called # "none" => \A k \in Keys : HasKey(dict, k) => HasKey(result, k)

\* C9 (amended): dict[k] is undefined exactly when k is not a key of dict or
\* is stored with the value undefined, and mapDict transforms exactly the keys
\* whose lookup is not undefined.
C9_VisitsExactlyDefinedLookups ==
  /\ \A k \in Keys :
       (Get(dict, k) = Undefined) <=>
         (~HasKey(dict, k) \/ \E i \in 1..Len(dict) :
                                dict[i].key = k /\ dict[i].val = Undefined)
  /\ called # "none" =>
       \A k \in Keys : HasKey(result, k) <=> IsDefinedIn(dict, k)

C9_Witness ==
  /\ called = "map"
  /\ \E k \in Keys : HasKey(dict, k) /\ ~IsDefinedIn(dict, k) /\ ~HasKey(result, k)
  /\ \E k \in Keys : Get(dict, k) = Num(0) /\ HasKey(result, k)

\* C10 (as claimed): mapDict with the identity function returns a dictionary
\* with the keys, the order and the values of its input.
C10_IdentityIsIdentity ==
  (called = "map" /\ fnF = "identity") => SameDict(result, dict)

\* C10 (amended): mapDict with the identity function returns the entries of
\* its input whose value is not undefined, in the same order with the same
\* values; the whole input when none of its values is undefined.
C10_IdentityKeepsDefinedEntries ==
  (called = "map" /\ fnF = "identity") =>
    /\ ObjectKeys(result) = DefinedKeys(dict)
    /\ \A k \in Keys : IsDefinedIn(dict, k) => Get(result, k) = Get(dict, k)
    /\ NoUndefined(dict) => SameDict(result, dict)

C10_Witness ==
  /\ called = "map"
  /\ fnF = "identity"
  /\ Len(dict) = 3
  /\ Len(result) = 2
  /\ \E k \in Keys : Get(dict, k) = Num(1)

(***************************************************************************)
(* Properties of arrayToDict and reduceDict (checked under SpecArr)        *)
(***************************************************************************)
Ids(arr) == [i \in 1..Len(arr) |-> arr[i].id]
DistinctIds(arr) == \A i, j \in 1..Len(arr) : i # j => arr[i].id # arr[j].id
\* The ids of arr, each at the place of its first occurrence.
FirstOccurrences(arr) ==
  LET ids == Ids(arr)
      Seen[n \in 0..Len(ids)] ==
        IF n = 0 THEN <<>>
        ELSE IF \E m \in 1..(n - 1) : ids[m] = ids[n] THEN Seen[n - 1]
        ELSE Append(Seen[n - 1], ids[n])
  IN Seen[Len(ids)]
\* The last element of arr that carries id k.
LastWith(arr, k) ==
  arr[CHOOSE i \in 1..Len(arr) :
        arr[i].id = k /\ \A j \in (i + 1)..Len(arr) : arr[j].id # k]
IdSet(arr) == {arr[i].id : i \in 1..Len(arr)}
\* Integer-like ids in ascending order, then the others as they first occur.
IndexIdsFirst(arr) ==
  Ascending({k \in IdSet(arr) : IsArrayIndex(k)})
    \o SelectSeq(FirstOccurrences(arr), IsStringKey)

\* C11 (as claimed): for insertions with pairwise distinct keys, the order in
\* which the keys of the resulting dictionary are visited is the insertion
\* order.
C11_IterationIsInsertionOrder ==
  (arrPc # "build" /\ DistinctIds(array)) => ObjectKeys(arrOut) = Ids(array)

\* C11 (amended): for insertions with pairwise distinct keys, integer-like keys
\* are visited first, in ascending numeric order, then the other keys in
\* insertion order; so the order is the insertion order when no key is
\* integer-like.
C11_InsertionOrderOfStringKeys ==
  (arrPc # "build" /\ DistinctIds(array)) =>
    /\ ObjectKeys(arrOut) =
         Ascending({k \in IdSet(array) : IsArrayIndex(k)})
           \o SelectSeq(Ids(array), IsStringKey)
    /\ (\A k \in IdSet(array) : IsStringKey(k)) => ObjectKeys(arrOut) = Ids(array)

C11_Witness ==
  /\ arrPc = "dict"
  /\ DistinctIds(array)
  /\ Ids(array) = <<"b", "1", "a">>

\* C12 (as claimed): arrayToDict returns a dictionary whose keys are the ids,
\* each mapped to the last element carrying it and positioned where the id
\* first occurred.
C12_LastValueFirstPosition ==
  arrPc # "build" =>
    /\ ObjectKeys(arrOut) = FirstOccurrences(array)
    /\ \A k \in IdSet(array) : Get(arrOut, k) = LastWith(array, k)
    /\ \A k \in Keys : HasKey(arrOut, k) <=> k \in IdSet(array)

\* C12 (amended): the keys are the ids, each mapped to the last element
\* carrying it; ids that are not integer-like are positioned in the order of
\* their first occurrence, after the integer-like ids in ascending numeric
\* order.
C12_LastValueFirstPositionOfStringKeys ==
  arrPc # "build" =>
    /\ ObjectKeys(arrOut) = IndexIdsFirst(array)
    /\ \A k \in IdSet(array) : Get(arrOut, k) = LastWith(array, k)
    /\ \A k \in Keys : HasKey(arrOut, k) <=> k \in IdSet(array)

C12_Witness ==
  /\ arrPc = "dict"
  /\ Ids(array) = <<"b", "a", "b">>
  /\ array[1].value # array[3].value
  /\ Get(arrOut, "b") = array[3]

RECURSIVE FoldKeys(_, _, _)
\* (acc, value, key) => acc.concat(key) folded over keys[i..].
FoldKeys(keys, i, acc) ==
  IF i > Len(keys) THEN acc ELSE FoldKeys(keys, i + 1, Append(acc, keys[i]))
JsArray(items) == [type |-> "array", items |-> items]

\* C14: reduceDict folds fn over the entries in iteration order from the
\* initial accumulator, visiting each entry once, and returns the final
\* accumulator (here: the keys collected in iteration order).
C14_ReduceFoldsEveryEntry ==
  arrPc = "reduced" => reduced = JsArray(FoldKeys(ObjectKeys(arrOut), 1, <<>>))

(***************************************************************************)
(* Properties of mapDict on objects (checked under SpecHeap)               *)
(***************************************************************************)
\* C13: after mapDict(d, fn) the dictionary d has the keys, the order and the
\* values it had before the call, the result is another object than d, and a
\* later change of the result does not change d.
C13_ReceiverUntouched ==
  heapPc # "build" =>
    /\ heap[ArgRef] = snapshot
    /\ resRef # ArgRef
    /\ Len(heap) = 2

C13_Witness ==
  /\ heapPc = "mutated"
  /\ Len(snapshot) = 2
  /\ heap[ArgRef] = snapshot
  /\ \E k \in Keys : HasKey(snapshot, k) /\ Get(heap[resRef], k) # Get(snapshot, k)
  /\ \E k \in Keys : ~HasKey(snapshot, k) /\ HasKey(heap[resRef], k)

(***************************************************************************)
(* Properties of getNameParts (checked under SpecName)                     *)
(***************************************************************************)
\* C16: for a name of n >= 2 whitespace-separated parts getNameParts returns
\* the first part, the last part, and as middle undefined when n = 2, else the
\* parts 2..n-1 joined by single spaces; for a name of fewer than 2 parts it
\* throws.
C16_NameParts ==
  namePc = "called" =>
    LET parts == Split(name)
        n == Len(parts)
    IN IF n < 2 THEN nameOut = Threw
       ELSE nameOut = Returned(Str(parts[1]),
                               IF n = 2 THEN Undefined
                               ELSE Str(Join(SubSeq(parts, 2, n - 1))),
                               Str(parts[n]))

(***************************************************************************)
(* Properties of addNumbers (checked under SpecAdd)                        *)
(***************************************************************************)
\* C17: the promise addNumbers(a, b) returns is pending until the 500 ms timer
\* of timeout() has fired, is then fulfilled with a + b, and is never
\* rejected.
C17_SumAfterTimer ==
  /\ addPromise.state # "rejected"
  /\ addTimer.state # "fired" => addPromise.state = "pending"
  /\ addPromise.state = "fulfilled" =>
       /\ addPromise.value = addCall.a + addCall.b
       /\ addPromise.at >= addCall.at + TimeoutMs
       /\ addPromise.at >= addTimer.firedAt
  /\ addPc = "done" => addPromise.state = "fulfilled"

C17_Witness ==
  /\ addPc = "done"
  /\ addCall.a = 3
  /\ addCall.b = 4
  /\ addCall.at > 0
  /\ addPromise.state = "fulfilled"
  /\ addPromise.value = 7
====
